---- MODULE Spec2Model ----
(***************************************************************************)
(* Model of parser.py: ScholarProfileParser (search_author_profiles,       *)
(* get_profile_papers, extract_paper_info, get_paper_details,              *)
(* analyze_author_research) and main.                                      *)
(*                                                                         *)
(* A Python dict is a function whose DOMAIN is its key set; an optional    *)
(* int (None or a number) is the empty or the one-element sequence.        *)
(***************************************************************************)
EXTENDS Integers, Sequences, FiniteSets, TLC

\* ---------------------------------------------------------------- bounds
MaxRows == 3
MaxYearRows == 4
MaxWorkers == 2
MaxProfiles == 2

\* ------------------------------------------------------ program constants
\* 'pagesize': '100' and `len(paper_rows) < 100`
PageSize == 100

\* ---------------------------------------------------------- Python values
NoneVal == << >>
Some(n) == << n >>
\* truth value of an optional int: None and 0 are false
Truthy(opt) == opt # NoneVal /\ opt[1] # 0

EmptyDict == [k \in {} |-> ""]
Put(d, k, v) == (k :> v) @@ d
\* dict.update: the keys of `other` win
Update(d, other) == other @@ d
Has(d, k) == k \in DOMAIN d

\* lst[:stop]
SliceTo(lst, stop) ==
  IF stop = NoneVal THEN lst
  ELSE IF stop[1] >= 0 THEN SubSeq(lst, 1, IF stop[1] < Len(lst) THEN stop[1] ELSE Len(lst))
  ELSE SubSeq(lst, 1, Len(lst) + stop[1])

\* int(text): the texts the listing can show and what int() makes of them;
\* a text outside the table raises ValueError
IntTable ==
  [t \in {"2019", "2020", "2021", "2022", "-1"} |->
     CASE t = "2019" -> 2019 [] t = "2020" -> 2020 [] t = "2021" -> 2021
       [] t = "2022" -> 2022 [] t = "-1" -> 0 - 1]
IntParses(text) == text \in DOMAIN IntTable
IntOf(text) == IntTable[text]

BaseUrl == "https://scholar.google.com"
UrlJoin(href) == BaseUrl \o href

\* ------------------------------------------------------------- the source
\* A detail page: ok = FALSE is a transport failure; table is <<>> when the
\* page has no gsc_oci_table, else <<rows>> with each row a record of the
\* field and value divs it holds (each <<>> or <<text>>); descr likewise.
PageFail == [ok |-> FALSE, table |-> << >>, descr |-> << >>]
PageBare == [ok |-> TRUE, table |-> << >>, descr |-> << >>]
PageFields ==
  [ok |-> TRUE,
   table |-> << << [field |-> <<"Journal">>, value |-> <<"Nature">>],
                   [field |-> <<"Total citations">>, value |-> <<"Cited by 7">>],
                   [field |-> <<"Pages">>, value |-> << >>] >> >>,
   descr |-> <<"An abstract">>]
PageTitled ==
  [ok |-> TRUE,
   table |-> << << [field |-> <<"title">>, value |-> <<"Another title">>],
                   [field |-> <<"Journal">>, value |-> <<"Nature">>] >> >>,
   descr |-> << >>]

\* A listing row <tr class="gsc_a_tr">: which cells it holds and their text.
Row(tcell, tlink, ttext, href, gray, ccell, ycell, ytext, page) ==
  [tcell |-> tcell, tlink |-> tlink, ttext |-> ttext, href |-> href,
   gray |-> gray, ccell |-> ccell, ctext |-> "12", ycell |-> ycell,
   ytext |-> ytext, page |-> page]

TitleOf(j) == "T" \o ToString(j)
HrefOf(j) == "/citations?view_op=view_citation&citation_for_view=" \o ToString(j)

FullRow(j, ytext, page) ==
  Row(TRUE, TRUE, TitleOf(j), HrefOf(j), 2, "link", "span", ytext, page)
PlainRow(j, ytext) ==
  Row(TRUE, TRUE, TitleOf(j), "", 1, "nolink", "span", ytext, PageFail)
NoYearRow(j) ==
  Row(TRUE, TRUE, TitleOf(j), "", 1, "nolink", "nospan", "", PageFail)
NoTitleRow(j) ==
  Row(FALSE, FALSE, "", "", 0, "nolink", "span", "2021", PageFail)
NoLinkRow(j) ==
  Row(TRUE, FALSE, "", "", 1, "none", "none", "", PageFail)
EmptyTitleRow(j) ==
  Row(TRUE, TRUE, "", HrefOf(j), 0, "link", "span", "2021", PageBare)
BlankRow(j) ==
  Row(FALSE, FALSE, "", "", 0, "none", "none", "", PageFail)

\* -------------------------------------------------------- pure extraction
\* extract_paper_info
ExtractPaperInfo(row) ==
  LET d1 == IF row.tcell /\ row.tlink THEN Put(EmptyDict, "title", row.ttext) ELSE EmptyDict
      d2 == IF row.tcell /\ row.tlink /\ row.href # ""
              THEN Put(d1, "detail_url", UrlJoin(row.href)) ELSE d1
      d3 == IF row.tcell /\ row.gray >= 1 THEN Put(d2, "authors", "A. Author") ELSE d2
      d4 == IF row.tcell /\ row.gray >= 2 THEN Put(d3, "venue", "Venue") ELSE d3
      d5 == CASE row.ccell = "link" -> Put(d4, "citations", row.ctext)
               [] row.ccell = "nolink" -> Put(d4, "citations", "0")
               [] OTHER -> d4
      d6 == IF row.ycell = "span" THEN Put(d5, "year", row.ytext) ELSE d5
  IN d6

\* the field/value loop of get_paper_details over the rows of the table
RECURSIVE TableFields(_, _)
TableFields(rows, details) ==
  IF rows = << >> THEN details
  ELSE LET r == Head(rows)
       IN TableFields(Tail(rows),
            IF r.field # << >> /\ r.value # << >>
              THEN Put(details, r.field[1], r.value[1]) ELSE details)

\* variant: the except branch returns a dict that carries the error
FailedDetailsWithError == [error |-> "request failed"]

\* the dict a failed get_paper_details returns (its except branch)
FailedDetails == EmptyDict

\* get_paper_details on the response the source gave
GetPaperDetails(page) ==
  IF ~page.ok THEN FailedDetails
  ELSE LET d1 == IF page.table # << >> THEN TableFields(page.table[1], EmptyDict) ELSE EmptyDict
       IN IF page.descr # << >> THEN Put(d1, "abstract", page.descr[1]) ELSE d1

\* ------------------------------------------------------------ the listing
\* The profile's publication table as the source holds it: n rows, the rows
\* at the positions of `special` as given there and every other row a
\* default one; failAt = k makes the k-th listing request fail (0: none).
DefaultRow(j) ==
  IF j % 64 = 1 THEN FullRow(j, "2021", PageFields) ELSE PlainRow(j, "2021")
RowAt(L, j) == IF j \in DOMAIN L.special THEN L.special[j] ELSE DefaultRow(j)

\* the rows the source serves for cstart = start, pagesize = 100
PageLast(L, start) == IF start + PageSize < L.n THEN start + PageSize ELSE L.n
PageLen(L, start) == IF start >= L.n THEN 0 ELSE PageLast(L, start) - start

\* `if max_papers and len(papers) >= max_papers`
CapReached(papers, max_papers) ==
  Truthy(max_papers) /\ Len(papers) >= max_papers[1]

\* `if paper_info:` a dict is true when it has a key
Kept(paper_info) == DOMAIN paper_info # {}

\* variant: the comparison is `paper_year <= year_limit`
YearStopsInclusive(paper_info, year_limit) ==
  /\ Truthy(year_limit)
  /\ Has(paper_info, "year")
  /\ paper_info["year"] # ""
  /\ IntParses(paper_info["year"])
  /\ IntOf(paper_info["year"]) <= year_limit[1]

\* the year-limit test of get_profile_papers: True when the listing returns
YearStops(paper_info, year_limit) ==
  /\ Truthy(year_limit)
  /\ Has(paper_info, "year")
  /\ paper_info["year"] # ""
  /\ IntParses(paper_info["year"])
  /\ IntOf(paper_info["year"]) < year_limit[1]

\* one turn of `for row in paper_rows:` on row j; st.returned is TRUE once
\* the loop has left through `return papers`
RowStep(L, j, st, max_papers, year_limit) ==
  IF st.returned THEN st
  ELSE IF CapReached(st.papers, max_papers) THEN [st EXCEPT !.returned = TRUE]
  ELSE LET paper_info == ExtractPaperInfo(RowAt(L, j))
       IN IF Kept(paper_info)
            THEN IF YearStops(paper_info, year_limit)
                   THEN [st EXCEPT !.returned = TRUE]
                   ELSE [st EXCEPT !.papers = Append(@, paper_info)]
            ELSE st

\* `for row in paper_rows:` over the rows lo..hi of one page, in order (the
\* range is halved so that the evaluation stays shallow)
RECURSIVE ProcessRows(_, _, _, _, _, _)
ProcessRows(L, lo, hi, st, max_papers, year_limit) ==
  IF lo > hi THEN st
  ELSE IF lo = hi THEN RowStep(L, lo, st, max_papers, year_limit)
  ELSE LET mid == (lo + hi) \div 2
           left == ProcessRows(L, lo, mid, st, max_papers, year_limit)
       IN IF left.returned THEN left
          ELSE ProcessRows(L, mid + 1, hi, left, max_papers, year_limit)

\* variant: a full page is taken for the last one, `len(paper_rows) <= 100`
LastPageInclusive(nrows) == nrows <= PageSize

\* `if len(paper_rows) < 100: break`
LastPage(nrows) == nrows < PageSize

\* `start_index += len(paper_rows)`
NextStart(start_index, nrows) == start_index + nrows

\* ------------------------------------------------------------- the search
\* A search response: ok = FALSE is a transport failure; header says the
\* page has the h3 "User profiles for"; table that a table follows it;
\* entries are the h4.gs_rt2 of the table.
GoodEntry(i) ==
  [link |-> TRUE, name |-> "P" \o ToString(i),
   href |-> [path |-> "/citations", query |-> [user |-> "u" \o ToString(i)]]]
EmptyUserEntry(i) ==
  [link |-> TRUE, name |-> "P" \o ToString(i),
   href |-> [path |-> "/citations", query |-> [user |-> ""]]]
OtherHrefEntry(i) ==
  [link |-> TRUE, name |-> "P" \o ToString(i),
   href |-> [path |-> "/scholar", query |-> [q |-> "x"]]]
NoLinkEntry(i) ==
  [link |-> FALSE, name |-> "", href |-> [path |-> "", query |-> EmptyDict]]

\* `'/citations?user=' in link.get('href', '')`
IsProfileHref(href) == href.path = "/citations" /\ Has(href.query, "user")

\* the loop over author_links of search_author_profiles
RECURSIVE ParseProfiles(_, _)
ParseProfiles(entries, profiles) ==
  IF entries = << >> THEN profiles
  ELSE LET h4 == Head(entries)
       IN ParseProfiles(Tail(entries),
            IF h4.link /\ IsProfileHref(h4.href)
              THEN Append(profiles, [name |-> h4.name, url |-> h4.href, info |-> h4.name])
              ELSE profiles)

\* search_author_profiles on the response the source gave
SearchAuthorProfiles(resp) ==
  IF ~resp.ok THEN << >>
  ELSE IF resp.header /\ resp.table THEN ParseProfiles(resp.entries, << >>)
  ELSE << >>

\* `if not profiles:` an empty list is false
NoProfiles(profiles) == profiles = << >>

\* `if profile_index >= len(profiles): profile_index = 0`
ClampIndex(profile_index, profiles) ==
  IF profile_index >= Len(profiles) THEN 0 ELSE profile_index

\* profiles[i] is defined for -len <= i < len, a negative i counting from the end
IndexInRange(i, lst) == 0 - Len(lst) <= i /\ i < Len(lst)
ListIndex(lst, i) == IF i >= 0 THEN lst[i + 1] ELSE lst[Len(lst) + i + 1]

\* `query_params.get('user', [''])[0]`
UserId(url) == IF Has(url.query, "user") THEN url.query["user"] ELSE ""

\* `if 'detail_url' in paper:`
NeedsDetails(paper) == Has(paper, "detail_url")

\* the page the source serves at a detail url
DetailPage(L, url) ==
  LET j == CHOOSE k \in 1..L.n : UrlJoin(RowAt(L, k).href) = url
  IN RowAt(L, j).page

\* `detailed_papers[index] = paper`
StoreResult(detailed_papers, index, paper) == [detailed_papers EXCEPT ![index] = paper]

\* variant: `if args.output:`
ShouldWriteIfOutput(output, papers) == output

\* `if args.output and papers:`
ShouldWrite(output, papers) == output /\ papers # << >>

\* ------------------------------------------------------------------ state
VARIABLES
  max_papers,       \* args.max_papers (optional int)
  profile_index,    \* the local profile_index of analyze_author_research
  num_workers,      \* args.num_workers
  year_limit,       \* args.year_limit (optional int)
  output,           \* whether --output was given
  searchResp,       \* the source: its answer to the author search
  listing,          \* the source: the profile's publication table
  pc,               \* where main and analyze_author_research stand
  profiles,         \* the list search_author_profiles returned
  chosen_profile,   \* << >> or <<the profile chosen>>
  papers,           \* the list get_profile_papers builds and returns
  start_index,      \* the cstart of the next listing request
  papers_to_process,\* papers[:max_papers]; the dicts the workers update in place
  detailed_papers,  \* the slots of the result: 0 is None, i the i-th dict
  next_task,        \* the next (paper, index) the pool hands to a worker
  worker,           \* per worker thread: the index it processes (0: idle)
  done,             \* the indices whose process_paper has returned
  collected,        \* how many results the `for paper, index in results` loop took
  result,           \* what analyze_author_research returned
  raised,           \* the exception that left analyze_author_research ("" none)
  outputWritten,    \* main wrote the output file
  searchFetches,    \* requests sent: author searches
  listFetches,      \* requests sent: the cstart of each listing request
  detailFetches,    \* requests sent: per index, the detail requests
  args_index,       \* history: the profile_index argument as passed
  summaries         \* history: the dicts as they were handed to the pool

vars ==
  << max_papers, profile_index, num_workers, year_limit, output, searchResp,
     listing, pc, profiles, chosen_profile, papers, start_index,
     papers_to_process, detailed_papers, next_task, worker, done, collected,
     result, raised, outputWritten, searchFetches, listFetches, detailFetches,
     args_index, summaries >>

inputs == << max_papers, num_workers, year_limit, output, searchResp, listing, args_index >>
poolVars == << papers_to_process, detailed_papers, next_task, worker, done, collected,
               detailFetches, summaries >>
listVars == << papers, start_index, listFetches >>

Workers == 1..num_workers

\* -------------------------------------------------------------- the inputs
SeqsUpTo(S, n) == UNION {[1..m -> S] : m \in 0..n}

OneProfile ==
  [ok |-> TRUE, header |-> TRUE, table |-> TRUE, entries |-> <<GoodEntry(1)>>]
Table(rows) == [n |-> Len(rows), special |-> rows, failAt |-> 0]

EntryKinds == {"good", "emptyuser", "otherhref", "nolink"}
EntryOf(kind, i) ==
  CASE kind = "good" -> GoodEntry(i)
    [] kind = "emptyuser" -> EmptyUserEntry(i)
    [] kind = "otherhref" -> OtherHrefEntry(i)
    [] OTHER -> NoLinkEntry(i)
SearchResponses ==
  {[ok |-> FALSE, header |-> FALSE, table |-> FALSE, entries |-> << >>],
   [ok |-> TRUE, header |-> FALSE, table |-> TRUE, entries |-> <<GoodEntry(1)>>],
   [ok |-> TRUE, header |-> TRUE, table |-> FALSE, entries |-> << >>]}
  \cup {[ok |-> TRUE, header |-> TRUE, table |-> TRUE,
         entries |-> [i \in DOMAIN ks |-> EntryOf(ks[i], i)]] :
          ks \in SeqsUpTo(EntryKinds, MaxProfiles)}

RowKinds == {"plain", "notitle", "nolink", "emptytitle", "blank"}
YearKinds == {"2021", "2020", "2019", "2022", "blank"}
OddYearKinds == {"n/a", "-1", "noyear", "", "2019"}
DetailKinds == {"fields", "fail", "titled", "plain"}
RowOf(kind, j) ==
  CASE kind = "plain" -> PlainRow(j, "2021")
    [] kind = "notitle" -> NoTitleRow(j)
    [] kind = "nolink" -> NoLinkRow(j)
    [] kind = "emptytitle" -> EmptyTitleRow(j)
    [] kind = "blank" -> BlankRow(j)
    [] kind = "noyear" -> NoYearRow(j)
    [] kind = "fields" -> FullRow(j, "2021", PageFields)
    [] kind = "fail" -> FullRow(j, "2020", PageFail)
    [] kind = "titled" -> FullRow(j, "2022", PageTitled)
    [] OTHER -> PlainRow(j, kind)
Tables(kinds, n) ==
  {Table([j \in DOMAIN ks |-> RowOf(ks[j], j)]) : ks \in SeqsUpTo(kinds, n)}

\* the state analyze_author_research starts in
Start(mp, pi, nw, yl, out, resp, table) ==
  /\ max_papers = mp /\ profile_index = pi /\ args_index = pi
  /\ num_workers = nw /\ year_limit = yl /\ output = out
  /\ searchResp = resp /\ listing = table
  /\ pc = "search"
  /\ profiles = << >> /\ chosen_profile = << >>
  /\ papers = << >> /\ start_index = 0
  /\ papers_to_process = << >> /\ detailed_papers = << >> /\ summaries = << >>
  /\ next_task = 1 /\ worker = [w \in 1..nw |-> 0] /\ done = {} /\ collected = 0
  /\ result = << >> /\ raised = "" /\ outputWritten = FALSE
  /\ searchFetches = 0 /\ listFetches = << >>
  /\ detailFetches = << >>

\* runs that vary the search answer and the profile index
InitProfiles ==
  \E resp \in SearchResponses, pi \in (0 - MaxProfiles - 1)..(MaxProfiles + 1),
     out \in BOOLEAN :
    Start(Some(20), pi, 1, NoneVal, out, resp, Table(<<FullRow(1, "2021", PageFields)>>))

\* runs that vary the years of the rows under a year limit
InitYears ==
  \/ \E table \in Tables(YearKinds, MaxYearRows) :
       Start(NoneVal, 0, 1, Some(2020), TRUE, OneProfile, table)
  \/ \E table \in Tables(OddYearKinds, MaxRows), yl \in {NoneVal, Some(0), Some(2020)} :
       Start(NoneVal, 0, 1, yl, TRUE, OneProfile, table)

\* runs that vary the cells of the rows, the cap and a failing listing request
InitRows ==
  \E table \in Tables(RowKinds, MaxRows),
     mp \in {NoneVal, Some(0 - 1), Some(0), Some(1), Some(2)}, f \in {0, 1} :
    Start(mp, 0, 1, NoneVal, TRUE, OneProfile, [table EXCEPT !.failAt = f])

\* runs that vary the detail pages and the number of workers
InitDetails ==
  \E table \in Tables(DetailKinds, MaxRows - 1), nw \in 0..MaxWorkers :
    Start(NoneVal, 0, nw, NoneVal, TRUE, OneProfile, table)

Init == InitProfiles \/ InitYears \/ InitRows \/ InitDetails

\* runs over tables of one full page and more: a row without cells or a row
\* of 2019 at chosen places, the cap around the page size, a failing request
PagedTables ==
  {[n |-> n, special |-> sp, failAt |-> f] :
     n \in {PageSize, PageSize + 37, 2 * PageSize},
     sp \in {EmptyDict, PageSize :> BlankRow(PageSize), 1 :> BlankRow(1),
             PageSize :> PlainRow(PageSize, "2019")},
     f \in {0, 1, 2}}
InitPaging ==
  \E table \in PagedTables, nw \in {0, 1}, yl \in {NoneVal, Some(2020)},
     mp \in {NoneVal, Some(0), Some(PageSize - 1), Some(PageSize), Some(PageSize + 1)} :
    /\ nw = 1 => /\ table.n <= PageSize + 37 /\ table.failAt = 0 /\ yl = NoneVal
                 /\ mp \in {NoneVal, Some(PageSize)} /\ table.special = EmptyDict
    /\ Start(mp, 0, nw, yl, TRUE, OneProfile, table)

\* ------------------------------------------------------------- the actions
\* analyze_author_research: `profiles = self.search_author_profiles(author_name)`
Search ==
  /\ pc = "search"
  /\ searchFetches' = searchFetches + 1
  /\ profiles' = SearchAuthorProfiles(searchResp)
  /\ pc' = "resolved"
  /\ UNCHANGED << inputs, profile_index, chosen_profile, listVars, poolVars,
                  result, raised, outputWritten >>

\* analyze_author_research from `if not profiles:` to `chosen_profile = ...`
Select ==
  /\ pc = "resolved"
  /\ IF NoProfiles(profiles)
       THEN /\ pc' = "returned"
            /\ result' = << >>
            /\ UNCHANGED << profile_index, chosen_profile, raised >>
       ELSE LET i == ClampIndex(profile_index, profiles)
            IN /\ profile_index' = i
               /\ IF IndexInRange(i, profiles)
                    THEN /\ chosen_profile' = << ListIndex(profiles, i) >>
                         /\ pc' = "list"
                         /\ UNCHANGED raised
                    ELSE /\ raised' = "IndexError"
                         /\ pc' = "raised"
                         /\ UNCHANGED chosen_profile
               /\ UNCHANGED result
  /\ UNCHANGED << inputs, profiles, listVars, poolVars, outputWritten, searchFetches >>

\* get_profile_papers up to the `while True:`
StartListing ==
  /\ pc = "list"
  /\ papers' = << >>
  /\ start_index' = 0
  /\ pc' = IF UserId(chosen_profile[1].url) = "" THEN "listed" ELSE "paging"
  /\ UNCHANGED << inputs, profile_index, profiles, chosen_profile, listFetches, poolVars,
                  result, raised, outputWritten, searchFetches >>

\* one turn of the `while True:` of get_profile_papers: the request, the
\* rows of the page, and the break, the return or the next turn
FetchPage ==
  /\ pc = "paging"
  /\ listFetches' = Append(listFetches, start_index)
  /\ IF listing.failAt = Len(listFetches) + 1
       THEN /\ pc' = "listed"
            /\ UNCHANGED << papers, start_index >>
       ELSE LET nrows == PageLen(listing, start_index)
                r == ProcessRows(listing, start_index + 1, start_index + nrows,
                                 [papers |-> papers, returned |-> FALSE],
                                 max_papers, year_limit)
            IN IF nrows = 0
                 THEN /\ pc' = "listed"
                      /\ UNCHANGED << papers, start_index >>
                 ELSE /\ papers' = r.papers
                      /\ IF r.returned
                           THEN /\ pc' = "listed"
                                /\ UNCHANGED start_index
                           ELSE /\ start_index' = NextStart(start_index, nrows)
                                /\ pc' = IF LastPage(nrows) THEN "listed" ELSE "paging"
  /\ UNCHANGED << inputs, profile_index, profiles, chosen_profile, poolVars,
                  result, raised, outputWritten, searchFetches >>

\* analyze_author_research from `papers_to_process = papers[:max_papers]`
\* to the submission of every (paper, index) by executor.map
StartPool ==
  /\ pc = "listed"
  /\ LET todo == SliceTo(papers, max_papers)
     IN /\ papers_to_process' = todo
        /\ summaries' = todo
        /\ detailed_papers' = [i \in 1..Len(todo) |-> 0]
        /\ detailFetches' = [i \in 1..Len(todo) |-> 0]
  /\ IF num_workers <= 0
       THEN /\ raised' = "ValueError" /\ pc' = "raised"
       ELSE /\ pc' = "pool" /\ UNCHANGED raised
  /\ UNCHANGED << inputs, profile_index, profiles, chosen_profile, listVars,
                  next_task, worker, done, collected, result, outputWritten,
                  searchFetches >>

\* a worker thread takes the next (paper, index): process_paper up to the
\* request of get_paper_details, or to its return when there is no detail_url
WorkerTake(w) ==
  /\ pc = "pool"
  /\ worker[w] = 0
  /\ next_task <= Len(papers_to_process)
  /\ next_task' = next_task + 1
  /\ IF NeedsDetails(papers_to_process[next_task])
       THEN /\ worker' = [worker EXCEPT ![w] = next_task]
            /\ detailFetches' = [detailFetches EXCEPT ![next_task] = @ + 1]
            /\ UNCHANGED done
       ELSE /\ done' = done \cup {next_task}
            /\ UNCHANGED << worker, detailFetches >>
  /\ UNCHANGED << inputs, profile_index, profiles, chosen_profile, listVars,
                  papers_to_process, detailed_papers, collected, summaries,
                  pc, result, raised, outputWritten, searchFetches >>

\* the response arrives: get_paper_details returns, `paper.update(details)`,
\* process_paper returns
WorkerFinish(w) ==
  /\ pc = "pool"
  /\ worker[w] # 0
  /\ LET index == worker[w]
         paper == papers_to_process[index]
         details == GetPaperDetails(DetailPage(listing, paper["detail_url"]))
     IN /\ papers_to_process' = [papers_to_process EXCEPT ![index] = Update(paper, details)]
        /\ done' = done \cup {index}
  /\ worker' = [worker EXCEPT ![w] = 0]
  /\ UNCHANGED << inputs, profile_index, profiles, chosen_profile, listVars,
                  detailed_papers, next_task, collected, detailFetches, summaries,
                  pc, result, raised, outputWritten, searchFetches >>

\* one turn of `for paper, index in results:`; results come in input order
Collect ==
  /\ pc = "pool"
  /\ collected < Len(papers_to_process)
  /\ collected + 1 \in done
  /\ detailed_papers' = StoreResult(detailed_papers, collected + 1, collected + 1)
  /\ collected' = collected + 1
  /\ UNCHANGED << inputs, profile_index, profiles, chosen_profile, listVars,
                  papers_to_process, next_task, worker, done, detailFetches, summaries,
                  pc, result, raised, outputWritten, searchFetches >>

\* the `with ThreadPoolExecutor` block ends: every unit has completed
PoolExit ==
  /\ pc = "pool"
  /\ collected = Len(papers_to_process)
  /\ done = 1..Len(papers_to_process)
  /\ pc' = "summary"
  /\ UNCHANGED << inputs, profile_index, profiles, chosen_profile, listVars, poolVars,
                  result, raised, outputWritten, searchFetches >>

\* the dict a slot of detailed_papers refers to
Deref(slot) == papers_to_process[slot]

\* the summary loop of analyze_author_research and `return detailed_papers`;
\* `paper['title']` raises KeyError on a dict without the key
Summary ==
  /\ pc = "summary"
  /\ IF \A i \in DOMAIN detailed_papers : Has(Deref(detailed_papers[i]), "title")
       THEN /\ result' = [i \in DOMAIN detailed_papers |-> Deref(detailed_papers[i])]
            /\ pc' = "returned"
            /\ UNCHANGED raised
       ELSE /\ raised' = "KeyError"
            /\ pc' = "raised"
            /\ UNCHANGED result
  /\ UNCHANGED << inputs, profile_index, profiles, chosen_profile, listVars, poolVars,
                  outputWritten, searchFetches >>

\* main after analyze_author_research: the output file, or the traceback
MainFinish ==
  /\ pc \in {"returned", "raised"}
  /\ outputWritten' = (pc = "returned" /\ ShouldWrite(output, result))
  /\ pc' = "exit"
  /\ UNCHANGED << inputs, profile_index, profiles, chosen_profile, listVars, poolVars,
                  result, raised, searchFetches >>

Next ==
  \/ Search
  \/ Select
  \/ StartListing
  \/ FetchPage
  \/ StartPool
  \/ \E w \in Workers : WorkerTake(w)
  \/ \E w \in Workers : WorkerFinish(w)
  \/ Collect
  \/ PoolExit
  \/ Summary
  \/ MainFinish

Spec == Init /\ [][Next]_vars

SpecPaging == InitPaging /\ [][Next]_vars

\* ----------------------------------------------------------------- claims
\* get_profile_papers has returned to analyze_author_research
ListerReturned == chosen_profile # << >> /\ pc \notin {"list", "paging"}

\* no listing request of the run failed, and the profile url held a user id
ListingUnbroken ==
  /\ ListerReturned
  /\ UserId(chosen_profile[1].url) # ""
  /\ (listing.failAt = 0 \/ listing.failAt > Len(listFetches))

\* the dicts of the rows lo..hi of the table, in order: every row, and only
\* the rows from which some field was extracted
RECURSIVE AllInfos(_, _, _)
AllInfos(L, lo, hi) ==
  IF lo > hi THEN << >>
  ELSE IF lo = hi THEN << ExtractPaperInfo(RowAt(L, lo)) >>
  ELSE AllInfos(L, lo, (lo + hi) \div 2) \o AllInfos(L, (lo + hi) \div 2 + 1, hi)
RECURSIVE FilledInfos(_, _, _)
FilledInfos(L, lo, hi) ==
  IF lo > hi THEN << >>
  ELSE IF lo = hi
    THEN LET info == ExtractPaperInfo(RowAt(L, lo))
         IN IF DOMAIN info = {} THEN << >> ELSE << info >>
  ELSE FilledInfos(L, lo, (lo + hi) \div 2) \o FilledInfos(L, (lo + hi) \div 2 + 1, hi)

\* the row shows a year that parses as an integer below Y
YearBelow(row, Y) == row.ycell = "span" /\ IntParses(row.ytext) /\ IntOf(row.ytext) < Y
\* the position of the first such row of the table, n + 1 when there is none
FirstBelow(L, Y) ==
  IF \E j \in 1..L.n : YearBelow(RowAt(L, j), Y)
    THEN CHOOSE j \in 1..L.n :
           /\ YearBelow(RowAt(L, j), Y)
           /\ \A k \in 1..(j - 1) : ~YearBelow(RowAt(L, k), Y)
    ELSE L.n + 1

\* C1 (as claimed): for max_papers = N >= 0, N = 0 included, the list
\* get_profile_papers returns has at most N items.
C1_ListerAtMostN ==
  (ListerReturned /\ max_papers # NoneVal /\ max_papers[1] >= 0)
    => Len(papers) <= max_papers[1]

\* C2 (as claimed): with a year limit Y, no cap and no failed request, the
\* list returned is exactly the rows before the first row whose year is
\* present, parses and is below Y; every other row is kept.
C2_ExactPrefixOfRows ==
  (ListingUnbroken /\ max_papers = NoneVal /\ year_limit # NoneVal)
    => papers = AllInfos(listing, 1, FirstBelow(listing, year_limit[1]) - 1)

\* C2 (amended): with no cap and no failed request, the list returned is, in
\* source order, the dict of every row from which some field was extracted
\* and that precedes the first row whose year is present, parses and is
\* below a non-zero year limit Y; a year limit of None or 0 stops nothing,
\* and a row without any extracted field is skipped.
C2_PrefixOfFilledRows ==
  (ListingUnbroken /\ max_papers = NoneVal)
    => LET stop == IF year_limit # NoneVal /\ year_limit[1] # 0
                     THEN FirstBelow(listing, year_limit[1]) ELSE listing.n + 1
       IN papers = FilledInfos(listing, 1, stop - 1)

\* C2 witness: years 2021, 2020, 2019, 2022 under Y = 2020 gave 2021, 2020.
C2_Witness ==
  /\ pc = "listed" /\ year_limit = Some(2020) /\ listing.n = 4
  /\ [j \in 1..4 |-> listing.special[j].ytext] = <<"2021", "2020", "2019", "2022">>
  /\ [i \in DOMAIN papers |-> papers[i]["year"]] = <<"2021", "2020">>

\* C3 (as claimed): when the pool has finished, the output has the length
\* of the input, every slot is filled, slot i holds item i, and item i has
\* the title it was handed in with.
C3_OrderAndTitlesKept ==
  pc = "summary"
    => /\ Len(detailed_papers) = Len(summaries)
       /\ \A i \in DOMAIN summaries :
            /\ detailed_papers[i] = i
            /\ Has(summaries[i], "title")
                 => /\ Has(Deref(i), "title")
                    /\ Deref(i)["title"] = summaries[i]["title"]

\* C4 (as claimed): with candidates found, the profile chosen is
\* candidates[profile_index] when 0 <= profile_index < len(candidates) and
\* candidates[0] otherwise, and the choice never raises IndexError.
C4_IndexClamped ==
  (pc \notin {"search", "resolved"} /\ profiles # << >>)
    => /\ raised # "IndexError"
       /\ chosen_profile =
            << profiles[IF 0 <= args_index /\ args_index < Len(profiles)
                          THEN args_index + 1 ELSE 1] >>

\* C5: once search_author_profiles has returned an empty list, the run only
\* returns an empty list: no exception, no listing request, no detail
\* request, one search request, and main writes no output file.
C5_EmptyResolveIsTerminal ==
  (pc # "search" /\ profiles = << >>)
    => /\ pc \in {"resolved", "returned", "exit"}
       /\ raised = ""
       /\ result = << >>
       /\ searchFetches = 1
       /\ listFetches = << >>
       /\ detailFetches = << >> /\ \A w \in Workers : worker[w] = 0
       /\ ~outputWritten

\* C5 witness: main has ended after a search page without a profiles
\* section, with --output given.
C5_Witness ==
  /\ pc = "exit" /\ profiles = << >> /\ output
  /\ searchResp.ok /\ ~searchResp.header

\* the offsets 0, 100, ... of k listing requests
Offsets(k) == [i \in 1..k |-> (i - 1) * PageSize]

\* C6 (as claimed): with no cap, no year limit and no failed request, a
\* table of 100*k + r rows (r < 100) is listed with k + 1 requests at the
\* offsets 0, 100, ..., 100*k, and all its rows are returned in order.
C6_AllRowsReturned ==
  (ListingUnbroken /\ ~Truthy(max_papers) /\ ~Truthy(year_limit))
    => /\ listFetches = Offsets(listing.n \div PageSize + 1)
       /\ Len(papers) = listing.n
       /\ papers = AllInfos(listing, 1, listing.n)

\* C6 (amended): with no cap, no year limit and no failed request, a table
\* of 100*k + r rows (r < 100) is listed with exactly k + 1 requests at the
\* offsets 0, 100, ..., 100*k, and the list returned holds, in source order,
\* the dict of every row from which some field was extracted (a row without
\* any extracted field is skipped).
C6_FilledRowsReturned ==
  (ListingUnbroken /\ ~Truthy(max_papers) /\ ~Truthy(year_limit))
    => /\ listFetches = Offsets(listing.n \div PageSize + 1)
       /\ papers = FilledInfos(listing, 1, listing.n)

\* C6 witness: 100 rows then 37 rows gave 2 requests and 137 items.
C6_Witness ==
  /\ pc = "listed" /\ max_papers = NoneVal /\ year_limit = NoneVal
  /\ listing.n = PageSize + 37 /\ listing.failAt = 0
  /\ listFetches = <<0, PageSize>>
  /\ Len(papers) = PageSize + 37

\* C7 (as claimed): every dict get_profile_papers returns, and every dict
\* of the final result, has a non-empty title.
C7_TitlesNonEmpty ==
  /\ ListerReturned
       => \A i \in DOMAIN papers : Has(papers[i], "title") /\ papers[i]["title"] # ""
  /\ \A i \in DOMAIN result : Has(result[i], "title") /\ result[i]["title"] # ""

\* C8 (as claimed): no exception leaves analyze_author_research.
C8_NothingRaised == raised = ""

\* the page the source serves for the i-th dict handed to the pool
PageOf(i) == DetailPage(listing, summaries[i]["detail_url"])

\* C9: a detail request is sent at most once per dict and never for a dict
\* without detail_url; when the pool has finished, every unit has completed,
\* every dict with a detail_url had exactly one request, a dict without
\* detail_url or whose page failed or held no field is unchanged, and every
\* other dict is its input merged with the fields of its own page only.
C9_OneFetchEachAndIsolation ==
  /\ \A i \in DOMAIN detailFetches :
       /\ detailFetches[i] <= 1
       /\ ~Has(summaries[i], "detail_url") => detailFetches[i] = 0
  /\ pc = "summary"
       => /\ done = DOMAIN summaries
          /\ \A i \in DOMAIN summaries :
               IF ~Has(summaries[i], "detail_url")
                 THEN detailFetches[i] = 0 /\ papers_to_process[i] = summaries[i]
                 ELSE /\ detailFetches[i] = 1
                      /\ (~PageOf(i).ok \/ (PageOf(i).table = << >> /\ PageOf(i).descr = << >>))
                           => papers_to_process[i] = summaries[i]
                      /\ PageOf(i) = PageFields
                           => papers_to_process[i] =
                                [Journal |-> "Nature", abstract |-> "An abstract"]
                                  @@ ("Total citations" :> "Cited by 7") @@ summaries[i]

\* C9 witness: two workers, the pool finished, one dict whose page failed
\* beside one that took the fields of its page.
C9_Witness ==
  /\ pc = "summary" /\ num_workers >= 2
  /\ \E i, j \in DOMAIN summaries :
       /\ i # j
       /\ Has(summaries[i], "detail_url") /\ ~PageOf(i).ok
       /\ Has(papers_to_process[j], "abstract")

\* C10 (as claimed): for max_papers = N >= 1, once N dicts are collected
\* get_profile_papers sends no further listing request.
C10_NoFetchAfterCap ==
  [][(max_papers # NoneVal /\ max_papers[1] >= 1 /\ Len(papers) >= max_papers[1])
       => listFetches' = listFetches]_vars

====
